---- MODULE Spec2Model ----
(***************************************************************************)
(* Model of pebble_tool.sdk.manager.SDKManager: the SDK root directory,    *)
(* the `current` symlink and the operations that install, list, select     *)
(* and remove SDK versions.                                                *)
(*                                                                         *)
(* Strings are sequences of one-character strings, so that the string      *)
(* operations the code relies on (startswith, the '..' substring test,     *)
(* os.path.join, os.path.normpath) are computed, not assumed.              *)
(* The filesystem is a function from the canonical path of every existing  *)
(* node (a sequence of path components) to the node: a directory with the  *)
(* SDK-level summary of what it holds, or a symlink with its raw target.   *)
(***************************************************************************)
EXTENDS Integers, Sequences, FiniteSets, Bags, TLC

(***************************************************************************)
(* Bounds of the model.                                                    *)
(***************************************************************************)
\* how many commands are run, one after the other, on one SDK root
MaxOps == 2
\* how many symlinks one path resolution follows before it gives up (ELOOP)
MaxSymlinks == 2

(***************************************************************************)
(* Strings.                                                                *)
(***************************************************************************)
SLASH == "/"
DOT == "."
DASH == "-"
DOTDOT == <<".", ".">>
EMPTY == <<>>

\* str.startswith
startswith(s, p) ==
    /\ Len(p) <= Len(s)
    /\ \A i \in 1..Len(p) : s[i] = p[i]

\* the `sub in s` substring test
contains(s, sub) ==
    \E i \in 0..(Len(s) - Len(sub)) : \A j \in 1..Len(sub) : s[i + j] = sub[j]

\* position of the first occurrence of character c in s at or after i, 0 if none
RECURSIVE find(_, _, _)
find(s, c, i) ==
    IF i > Len(s) THEN 0
    ELSE IF s[i] = c THEN i
    ELSE find(s, c, i + 1)

\* str.split(sep): the pieces between the occurrences of the character sep
RECURSIVE split(_, _)
split(s, sep) ==
    LET i == find(s, sep, 1)
    IN  IF i = 0 THEN <<s>>
        ELSE <<SubSeq(s, 1, i - 1)>> \o split(SubSeq(s, i + 1, Len(s)), sep)

\* sep.join(parts)
RECURSIVE joinwith(_, _)
joinwith(parts, sep) ==
    IF Len(parts) = 0 THEN EMPTY
    ELSE IF Len(parts) = 1 THEN parts[1]
    ELSE parts[1] \o <<sep>> \o joinwith(Tail(parts), sep)

(***************************************************************************)
(* posixpath.join and posixpath.normpath, as the manager calls them.       *)
(***************************************************************************)
\* os.path.join(a, b): an absolute b discards a
join(a, b) ==
    IF startswith(b, <<SLASH>>) THEN b
    ELSE IF a = EMPTY \/ a[Len(a)] = SLASH THEN a \o b
    ELSE a \o <<SLASH>> \o b

\* the component stack normpath builds: '' and '.' are dropped, '..' pops
RECURSIVE normcomps(_, _, _, _)
normcomps(comps, i, acc, absolute) ==
    IF i > Len(comps) THEN acc
    ELSE LET c == comps[i]
         IN  IF c = EMPTY \/ c = <<DOT>> THEN normcomps(comps, i + 1, acc, absolute)
             ELSE IF \/ c # DOTDOT
                     \/ (~absolute /\ acc = <<>>)
                     \/ (acc # <<>> /\ acc[Len(acc)] = DOTDOT)
                  THEN normcomps(comps, i + 1, Append(acc, c), absolute)
             ELSE IF acc # <<>>
                  THEN normcomps(comps, i + 1, SubSeq(acc, 1, Len(acc) - 1), absolute)
             ELSE normcomps(comps, i + 1, acc, absolute)

\* os.path.normpath(path)
normpath(path) ==
    IF path = EMPTY THEN <<DOT>>
    ELSE LET absolute == startswith(path, <<SLASH>>)
             two == /\ startswith(path, <<SLASH, SLASH>>)
                    /\ ~startswith(path, <<SLASH, SLASH, SLASH>>)
             body == joinwith(normcomps(split(path, SLASH), 1, <<>>, absolute), SLASH)
             out == IF two THEN <<SLASH, SLASH>> \o body
                    ELSE IF absolute THEN <<SLASH>> \o body
                    ELSE body
         IN  IF out = EMPTY THEN <<DOT>> ELSE out

(***************************************************************************)
(* The filesystem.  A key is the canonical path of a node, as the sequence *)
(* of its components; <<>> is "/", which always exists.                    *)
(***************************************************************************)
ROOT == <<>>

\* a directory as os.mkdir leaves it: nothing of an SDK in it
PlainDir ==
    [kind |-> "dir", target |-> EMPTY, mstate |-> "none", version |-> EMPTY,
     venv |-> FALSE, deps |-> FALSE, toolchain |-> "none"]

\* a symlink holding the raw target string given to os.symlink
LinkTo(target) == [PlainDir EXCEPT !.kind = "link", !.target = target]

IsDir(fs, k) == k = ROOT \/ (k \in DOMAIN fs /\ fs[k].kind = "dir")

Parent(k) == IF k = ROOT THEN ROOT ELSE SubSeq(k, 1, Len(k) - 1)

IsPrefix(k, l) == Len(k) <= Len(l) /\ SubSeq(l, 1, Len(k)) = k

Restrict(f, S) == [x \in S |-> f[x]]

\* The kernel's path resolution: every component but the last is followed
\* if it is a symlink and must be a directory; the last one is followed
\* only when followLast.  cur is always an existing directory.
\* [ok |-> FALSE] is ENOENT, ENOTDIR or ELOOP; with ~followLast, ok and a key
\* outside DOMAIN fs is a name that can be created.
RECURSIVE walk(_, _, _, _, _, _)
walk(fs, comps, i, cur, followLast, depth) ==
    IF i > Len(comps) THEN [ok |-> TRUE, key |-> cur]
    ELSE LET c == comps[i]
             final == (i = Len(comps))
             k == Append(cur, c)
             fail == [ok |-> FALSE, key |-> k]
         IN  IF c = EMPTY \/ c = <<DOT>> THEN walk(fs, comps, i + 1, cur, followLast, depth)
             ELSE IF c = DOTDOT THEN walk(fs, comps, i + 1, Parent(cur), followLast, depth)
             ELSE IF k \notin DOMAIN fs
                  THEN IF final /\ ~followLast THEN [ok |-> TRUE, key |-> k] ELSE fail
             ELSE IF fs[k].kind = "link"
                  THEN IF final /\ ~followLast THEN [ok |-> TRUE, key |-> k]
                       ELSE IF depth = 0 THEN fail
                       ELSE LET t == walk(fs, split(fs[k].target, SLASH), 1, ROOT,
                                          TRUE, depth - 1)
                            IN  IF ~t.ok THEN fail
                                ELSE walk(fs, comps, i + 1, t.key, followLast, depth)
             ELSE walk(fs, comps, i + 1, k, followLast, depth)

stat(fs, path) == walk(fs, split(path, SLASH), 1, ROOT, TRUE, MaxSymlinks)
lstat(fs, path) == walk(fs, split(path, SLASH), 1, ROOT, FALSE, MaxSymlinks)

\* os.path.exists: follows symlinks, FALSE for a dangling one
exists(fs, path) == stat(fs, path).ok

\* os.path.islink
islink(fs, path) ==
    LET r == lstat(fs, path)
    IN  r.ok /\ r.key \in DOMAIN fs /\ fs[r.key].kind = "link"

\* os.mkdir: EEXIST if the name is taken (by anything, a dangling symlink
\* included), ENOENT if the parent is missing
mkdir(fs, path) ==
    LET r == lstat(fs, path)
    IN  IF r.ok /\ r.key # ROOT /\ r.key \notin DOMAIN fs
        THEN [ok |-> TRUE, fs |-> (r.key :> PlainDir) @@ fs]
        ELSE [ok |-> FALSE, fs |-> fs]

\* os.symlink(target, linkpath)
symlink(fs, target, linkpath) ==
    LET r == lstat(fs, linkpath)
    IN  IF r.ok /\ r.key # ROOT /\ r.key \notin DOMAIN fs
        THEN [ok |-> TRUE, fs |-> (r.key :> LinkTo(target)) @@ fs]
        ELSE [ok |-> FALSE, fs |-> fs]

\* os.unlink: removes a symlink; OSError on a directory or a missing name
unlink(fs, path) ==
    LET r == lstat(fs, path)
    IN  IF r.ok /\ r.key \in DOMAIN fs /\ fs[r.key].kind = "link"
        THEN [ok |-> TRUE, fs |-> Restrict(fs, DOMAIN fs \ {r.key})]
        ELSE [ok |-> FALSE, fs |-> fs]

\* shutil.rmtree: refuses a symlink and a missing path (OSError); otherwise
\* removes the directory and everything below it.  fault is what the
\* environment does to it: "none", "early" (it fails before removing
\* anything) or "partial" (it fails after emptying the directory itself).
rmtree(fs, path, fault) ==
    LET r == lstat(fs, path)
    IN  IF ~(r.ok /\ r.key # ROOT /\ r.key \in DOMAIN fs /\ fs[r.key].kind = "dir")
        THEN [ok |-> FALSE, fs |-> fs]
        ELSE IF fault = "early" THEN [ok |-> FALSE, fs |-> fs]
        ELSE IF fault = "partial"
             THEN [ok |-> FALSE, fs |-> [fs EXCEPT ![r.key] = PlainDir]]
        ELSE [ok |-> TRUE,
              fs |-> Restrict(fs, {k \in DOMAIN fs : ~IsPrefix(r.key, k)})]

\* os.listdir: the keys of the entries of a directory
listdir(fs, path) ==
    LET r == stat(fs, path)
    IN  IF ~r.ok THEN [ok |-> FALSE, entries |-> {}]
        ELSE [ok |-> TRUE,
              entries |-> {k \in DOMAIN fs : Len(k) = Len(r.key) + 1 /\ IsPrefix(r.key, k)}]

\* the directory at path with some of its SDK-level fields rewritten
\* (path exists and is a directory wherever this is used)
setnode(fs, path, node) == [fs EXCEPT ![stat(fs, path).key] = node]
getnode(fs, path) == fs[stat(fs, path).key]


(***************************************************************************)
(* pebble_tool.util.versions.version_to_key: the sort key                  *)
(* (major, minor, patch, suffix class, suffix number, fallback).           *)
(***************************************************************************)
DIGITS == <<"0", "1", "2", "3", "4", "5", "6", "7", "8", "9">>

\* the characters of the model in code-point order; ord keeps that order
CHARS == <<"-", ".", "/">> \o DIGITS \o <<"S", "a", "b", "c", "d", "e", "i", "n", "p", "r", "t", "u", "x">>

ord(c) == CHOOSE i \in 1..Len(CHARS) : CHARS[i] = c

isdigit(c) == \E i \in 1..Len(DIGITS) : DIGITS[i] = c

\* a non-empty run of decimal digits
isnumber(s) == Len(s) > 0 /\ \A i \in 1..Len(s) : isdigit(s[i])

RECURSIVE int(_)
int(s) ==
    IF Len(s) = 0 THEN 0
    ELSE 10 * int(SubSeq(s, 1, Len(s) - 1))
         + ((CHOOSE i \in 1..Len(DIGITS) : DIGITS[i] = s[Len(s)]) - 1)

\* one class for every suffix.  Not the ranking of the build stages; C14 must
\* tell the two apart.
oneclass(name) == 0 - 1

\* the build-stage suffixes and their classes
SUFFIXES == << <<"d", "p">>, <<"b", "e", "t", "a">>, <<"r", "c">> >>
suffixclass(name) == CASE name = SUFFIXES[1] -> 0 - 3
                       [] name = SUFFIXES[2] -> 0 - 2
                       [] name = SUFFIXES[3] -> 0 - 1

\* the suffix after the '-': [ok, class, number]
parsesuffix(s) ==
    LET fits == {i \in 1..Len(SUFFIXES) :
                    /\ startswith(s, SUFFIXES[i])
                    /\ isnumber(SubSeq(s, Len(SUFFIXES[i]) + 1, Len(s)))}
    IN  IF fits = {} THEN [ok |-> FALSE, class |-> 0, number |-> 0]
        ELSE LET i == CHOOSE j \in fits : TRUE
             IN  [ok |-> TRUE, class |-> suffixclass(SUFFIXES[i]),
                  number |-> int(SubSeq(s, Len(SUFFIXES[i]) + 1, Len(s)))]

\* a missing component counted as the one before it.  Not the zero padding
\* of version_to_key; C16 must tell the two apart.
repeated(parts, i) == int(parts[IF i <= Len(parts) THEN i ELSE Len(parts)])

\* the i-th number of the version; a missing minor or patch number is 0
component(parts, i) == IF i <= Len(parts) THEN int(parts[i]) ELSE 0

\* a key that forgets the string it could not parse.  Not the fallback of
\* version_to_key; C15 must tell the two apart.
zerokey(version) == <<0, 0, 0, 0, 0, EMPTY>>

version_to_key(version) ==
    LET dash == find(version, DASH, 1)
        head == IF dash = 0 THEN version ELSE SubSeq(version, 1, dash - 1)
        parts == split(head, DOT)
        numeric == Len(parts) <= 3 /\ \A i \in 1..Len(parts) : isnumber(parts[i])
        suffix == IF dash = 0 THEN [ok |-> TRUE, class |-> 0, number |-> 0]
                  ELSE parsesuffix(SubSeq(version, dash + 1, Len(version)))
    IN  IF numeric /\ suffix.ok
        THEN <<component(parts, 1), component(parts, 2), component(parts, 3),
               suffix.class, suffix.number, EMPTY>>
        ELSE <<0, 0, 0, 0, 0, version>>

\* Python's order on strings: by code point, a proper prefix first
RECURSIVE strless(_, _)
strless(a, b) ==
    IF Len(b) = 0 THEN FALSE
    ELSE IF Len(a) = 0 THEN TRUE
    ELSE IF a[1] # b[1] THEN ord(a[1]) < ord(b[1])
    ELSE strless(Tail(a), Tail(b))

\* an order on the major number alone.  Not Python's order on tuples; C13
\* must tell the two apart.
majorless(k, l) == k[1] < l[1]

\* Python's order on the key tuples: lexicographic
keyless(k, l) ==
    \E i \in 1..6 :
        /\ \A j \in 1..(i - 1) : k[j] = l[j]
        /\ IF i = 6 THEN strless(k[6], l[6]) ELSE k[i] < l[i]

\* sorted() without reverse=True: a version whose key exceeds no other one's.
\* Not what line 68 computes; C8 must tell the two apart.
lastsorted(versions) ==
    {v \in versions : \A w \in versions : ~keyless(version_to_key(w), version_to_key(v))}

\* sorted(versions, reverse=True, key=version_to_key)[0], for every order in
\* which the set may be iterated: a version no other one's key exceeds
firstsorted(versions) ==
    {v \in versions : \A w \in versions : ~keyless(version_to_key(v), version_to_key(w))}


(***************************************************************************)
(* SDKManager: paths.                                                      *)
(***************************************************************************)
\* get_persist_dir() and the name "SDKs" joined to it, shortened
PERSIST_DIR == <<"/", "p">>
SDKS == <<"S">>
CURRENT == <<"c", "u", "r", "r", "e", "n", "t">>
TINTIN == <<"t", "i", "n", "t", "i", "n">>
TOOLCHAIN == <<"t", "c">>

sdk_dir == normpath(join(PERSIST_DIR, SDKS))

_current_path == join(sdk_dir, CURRENT)

\* the outcome of a call: the filesystem it leaves and the exception that
\* propagates out of it ("none": it returned)
Outcome(fs, exc) == [fs |-> fs, exc |-> exc]

(***************************************************************************)
(* SDKManager: queries.                                                    *)
(***************************************************************************)
\* json.load of the manifest a directory holds: ValueError on invalid syntax
json_load(node) ==
    IF node.mstate = "bad" THEN [exc |-> "ValueError", value |-> [version |-> EMPTY]]
    ELSE [exc |-> "none", value |-> [version |-> node.version]]

\* os.path.exists(<dir>/sdk-core/manifest.json)
manifest_exists(fs, dir) == exists(fs, dir) /\ getnode(fs, dir).mstate # "none"

\* a scan that follows symlinks like any other entry.  Not what lines 40-41
\* do; C10 must tell the two apart.
skip_nothing(fs, dir) == FALSE

\* the `if os.path.islink(dir): continue` of list_local_sdks
skip_entry(fs, dir) == islink(fs, dir)

\* the loop of list_local_sdks over the entries not yet seen; acc is
\* [exc, sdks], and an exception ends the loop
RECURSIVE scan_sdks(_, _, _)
scan_sdks(fs, entries, acc) ==
    IF entries = {} \/ acc.exc # "none" THEN acc
    ELSE LET k == CHOOSE e \in entries : TRUE
             dir == join(sdk_dir, k[Len(k)])
             rest == entries \ {k}
         IN  IF skip_entry(fs, dir) THEN scan_sdks(fs, rest, acc)
             ELSE IF ~manifest_exists(fs, dir) THEN scan_sdks(fs, rest, acc)
             ELSE LET loaded == json_load(getnode(fs, dir))
                  IN  IF loaded.exc = "ValueError" THEN scan_sdks(fs, rest, acc)
                      ELSE scan_sdks(fs, rest,
                               [acc EXCEPT !.sdks = @ (+) SetToBag({loaded.value})])

\* list_local_sdks: [exc, sdks], sdks the bag of the manifests read; a
\* missing SDK root (ENOENT) is the empty list
list_local_sdks(fs) ==
    LET ld == listdir(fs, sdk_dir)
    IN  IF ~ld.ok THEN [exc |-> "none", sdks |-> EmptyBag]
        ELSE scan_sdks(fs, ld.entries, [exc |-> "none", sdks |-> EmptyBag])

list_local_sdk_versions(fs) == {m.version : m \in BagToSet(list_local_sdks(fs).sdks)}

\* the current_path property: None unless the pointer resolves
has_current_path(fs) == exists(fs, _current_path)

\* get_current_sdk: [exc, none, version]
get_current_sdk(fs) ==
    IF ~has_current_path(fs)
    THEN [exc |-> "none", none |-> TRUE, version |-> EMPTY]
    ELSE IF ~manifest_exists(fs, _current_path)
         THEN [exc |-> "none", none |-> TRUE, version |-> EMPTY]
    ELSE LET loaded == json_load(getnode(fs, _current_path))
         IN  IF loaded.exc # "none"
             THEN [exc |-> loaded.exc, none |-> TRUE, version |-> EMPTY]
             ELSE [exc |-> "none", none |-> FALSE, version |-> loaded.value.version]

(***************************************************************************)
(* SDKManager.set_current_sdk and uninstall_sdk.                           *)
(***************************************************************************)
set_current_sdk(fs, version) ==
    LET path == join(sdk_dir, version)
    IN  IF ~exists(fs, path) THEN Outcome(fs, "NotInstalled")
        ELSE LET u == unlink(fs, _current_path)
                 l == symlink(u.fs, path, _current_path)
             IN  IF l.ok THEN Outcome(l.fs, "none")
                 ELSE Outcome(u.fs, "OSError@symlink")

\* a test that takes every uninstalled version for the current one.  Not
\* what line 67 does; C25 must tell the two apart.
any_current(current_sdk, version) == TRUE

\* line 67: current_sdk == version
was_current(current_sdk, version) == ~current_sdk.none /\ current_sdk.version = version

\* the set of outcomes of uninstall_sdk: one for every version sorted() may
\* put first.  fault is what the environment does to the rmtree.
uninstall_sdk(fs, version, fault) ==
    LET current_sdk == get_current_sdk(fs)
        path == join(sdk_dir, version)
    IN  IF current_sdk.exc # "none" THEN {Outcome(fs, current_sdk.exc)}
        ELSE IF ~exists(fs, path) THEN {Outcome(fs, "MissingSDK")}
        ELSE LET r == rmtree(fs, path, fault)
             IN  IF ~r.ok THEN {Outcome(r.fs, "OSError@rmtree")}
                 ELSE IF ~was_current(current_sdk, version)
                      THEN {Outcome(r.fs, "none")}
                 ELSE LET current_sdks == list_local_sdk_versions(r.fs)
                      IN  IF current_sdks # {}
                          THEN {set_current_sdk(r.fs, v) : v \in firstsorted(current_sdks)}
                          ELSE LET u == unlink(r.fs, _current_path)
                               IN  {Outcome(u.fs, IF u.ok THEN "none" ELSE "OSError@unlink")}


(***************************************************************************)
(* SDKManager._install_from_handle.                                        *)
(* An archive is [manifest, version, names, reqOK, pkg]: whether it holds  *)
(* a readable sdk-core/manifest.json, the version that manifest names, its *)
(* member names, whether the host satisfies the manifest's requirements    *)
(* (the answer of Requirements.ensure_satisfied), and whether it holds     *)
(* sdk-core/package.json.  fault names the step the environment makes      *)
(* fail, "none" for no step.                                               *)
(***************************************************************************)
\* a member-name test that looks for absolute names only.  Not what line
\* 156 does; C3 must tell the two apart.
absolute_only(filename) == startswith(filename, <<SLASH>>)

\* the member-name test of lines 156 and 203
questionable(filename) == startswith(filename, <<SLASH>>) \/ contains(filename, DOTDOT)

\* the containment test of lines 158 and 205
inside_sdk_dir(path) == startswith(path, sdk_dir)

\* the directory at path after a step of the install has written to it
extractall(fs, path, mstate, version) ==
    setnode(fs, path, [PlainDir EXCEPT !.mstate = mstate, !.version = version])
with_venv(fs, path) == setnode(fs, path, [getnode(fs, path) EXCEPT !.venv = TRUE])
with_deps(fs, path) == setnode(fs, path, [getnode(fs, path) EXCEPT !.deps = TRUE])
with_toolchain(fs, path, state) ==
    setnode(fs, path, [getnode(fs, path) EXCEPT !.toolchain = state])

\* an except block that deletes nothing.  Not what lines 186-189 do; C5
\* must tell the two apart.
no_cleanup(c) == FALSE

\* line 186: whether the except block deletes `path`
cleanup_wanted(c) == c.haspath /\ exists(c.fs, c.path)

\* an except block that lets the OSError of its cleanup escape.  Not what
\* lines 190-192 do; C6 must tell the two apart.
masked(original, cleanup_exc) == IF cleanup_exc # "none" THEN cleanup_exc ELSE original

\* lines 183-192: the exception that leaves the except block.  The OSError
\* of the cleanup is swallowed at line 190; the bare raise of line 192
\* re-raises the exception being handled.
propagated(original, cleanup_exc) == original

\* A run of _install_from_handle is [fs, pc, a, binary, fault, cfault, path,
\* haspath, raised, cleanup, exc]: the filesystem, the statement it is at,
\* its inputs (binary: the handle f yields bytes), the local `path`
\* (haspath: it is not None), the exception the try block raised, what the
\* cleanup did ("none": no deletion attempted, "done", "failed"), and the
\* exception that left the call.
Begin(fs, a, binary, fault, cfault) ==
    [fs |-> fs, pc |-> "open", a |-> a, binary |-> binary, fault |-> fault,
     cfault |-> cfault, path |-> EMPTY, haspath |-> FALSE, raised |-> "none",
     cleanup |-> "none", exc |-> "none"]

\* one statement of _install_from_handle (and of the toolchain install it
\* calls at line 180)
install_step(c) ==
    LET goto(pc) == [c EXCEPT !.pc = pc]
        at(fs, pc) == [c EXCEPT !.fs = fs, !.pc = pc]
        raise(exc) == [c EXCEPT !.pc = "except", !.raised = exc]
        fail(fs, exc) == [c EXCEPT !.fs = fs, !.pc = "except", !.raised = exc]
        dest == join(sdk_dir, c.a.version)
    IN  CASE c.pc = "open" ->
                \* tarfile.open on a text-mode handle reads str where it needs
                \* bytes: TypeError (UnicodeDecodeError when the archive is
                \* compressed), raised with path still None
                IF ~c.binary THEN raise("TypeError") ELSE goto("manifest")
          [] c.pc = "manifest" ->
                IF ~c.a.manifest THEN raise("KeyError")
                ELSE [c EXCEPT !.pc = "exists", !.haspath = TRUE,
                               !.path = normpath(join(sdk_dir, c.a.version))]
          [] c.pc = "exists" ->
                IF exists(c.fs, c.path) THEN raise("AlreadyInstalled") ELSE goto("names")
          [] c.pc = "names" ->
                IF \E i \in 1..Len(c.a.names) : questionable(c.a.names[i])
                THEN raise("Questionable") ELSE goto("contained")
          [] c.pc = "contained" ->
                IF ~inside_sdk_dir(c.path) THEN raise("Suspicious") ELSE goto("requirements")
          [] c.pc = "requirements" ->
                IF ~c.a.reqOK THEN raise("Unsatisfied") ELSE goto("mkdir")
          [] c.pc = "mkdir" ->
                LET made == mkdir(c.fs, dest)
                IN  IF c.fault = "mkdir" \/ ~made.ok THEN raise("OSError@mkdir")
                    ELSE at(made.fs, "extract")
          [] c.pc = "extract" ->
                IF ~exists(c.fs, c.path) THEN raise("OSError@extract")
                ELSE IF c.fault = "extract_none"
                     THEN fail(extractall(c.fs, c.path, "none", EMPTY), "OSError@extract")
                ELSE IF c.fault = "extract_bad"
                     THEN fail(extractall(c.fs, c.path, "bad", EMPTY), "OSError@extract")
                ELSE IF c.fault = "extract_ok"
                     THEN fail(extractall(c.fs, c.path, "ok", c.a.version), "OSError@extract")
                ELSE at(extractall(c.fs, c.path, "ok", c.a.version), "venv")
          [] c.pc = "venv" ->
                IF c.fault = "venv" THEN raise("CalledProcessError@venv")
                ELSE at(with_venv(c.fs, c.path), "pip")
          [] c.pc = "pip" ->
                IF c.fault = "pip" THEN raise("CalledProcessError@pip")
                ELSE at(with_deps(c.fs, c.path), "npm")
          [] c.pc = "npm" ->
                IF c.a.pkg /\ c.fault = "npm" THEN raise("NpmError") ELSE goto("set_current")
          [] c.pc = "set_current" ->
                LET sc == set_current_sdk(c.fs, c.a.version)
                IN  IF sc.exc # "none" THEN fail(sc.fs, sc.exc) ELSE at(sc.fs, "tc_download")
          [] c.pc = "tc_download" ->
                IF c.fault = "tc_download" THEN raise("HTTPError@toolchain")
                ELSE goto("tc_names")
          [] c.pc = "tc_names" ->
                IF c.fault = "tc_names" THEN raise("Questionable@toolchain")
                ELSE goto("tc_contained")
          [] c.pc = "tc_contained" ->
                IF ~inside_sdk_dir(normpath(join(dest, TOOLCHAIN)))
                THEN raise("Suspicious@toolchain") ELSE goto("tc_mkdir")
          [] c.pc = "tc_mkdir" ->
                IF \/ c.fault = "tc_mkdir"
                   \/ ~exists(c.fs, dest)
                   \/ getnode(c.fs, dest).toolchain # "none"
                THEN raise("OSError@tc_mkdir") ELSE goto("tc_extract")
          [] c.pc = "tc_extract" ->
                IF c.fault = "tc_extract"
                THEN fail(with_toolchain(c.fs, dest, "partial"), "OSError@tc_extract")
                ELSE goto("tc_move")
          [] c.pc = "tc_move" ->
                IF c.fault = "tc_move"
                THEN fail(with_toolchain(c.fs, dest, "partial"), "OSError@tc_move")
                ELSE at(with_toolchain(c.fs, dest, "ok"), "return")
          [] c.pc = "return" -> goto("returned")
          [] c.pc = "except" ->
                IF cleanup_wanted(c)
                THEN LET r == rmtree(c.fs, c.path, c.cfault)
                     IN  [c EXCEPT !.fs = r.fs, !.pc = "raise",
                                   !.cleanup = IF r.ok THEN "done" ELSE "failed"]
                ELSE goto("raise")
          [] c.pc = "raise" ->
                [c EXCEPT !.pc = "raised",
                          !.exc = propagated(c.raised, IF c.cleanup = "failed"
                                                       THEN "OSError@cleanup" ELSE "none")]

\* the statements in order, to the return or the raise
RECURSIVE install_run(_)
install_run(c) ==
    IF c.pc \in {"returned", "raised"} THEN c ELSE install_run(install_step(c))

\* the try block alone: the run up to its end
RECURSIVE install_try(_)
install_try(c) ==
    IF c.pc \in {"return", "except"} THEN c ELSE install_try(install_step(c))

_install_from_handle(fs, a, binary, fault, cfault) ==
    install_run(Begin(fs, a, binary, fault, cfault))

(***************************************************************************)
(* SDKManager.install_from_url and install_remote_sdk.                     *)
(* dfault is what the environment does to the network: "none", "request"   *)
(* (the catalog request fails) or "download" (the archive download fails). *)
(* desc is the catalog's descriptor [hasVersion, version, reqOK].          *)
(***************************************************************************)
\* the outcome of an install: _install_from_handle's, with whether the
\* download was started and whether _install_from_handle was reached
Installed(r, downloaded, handled) ==
    [fs |-> r.fs, exc |-> r.exc, raised |-> r.raised, cleanup |-> r.cleanup,
     haspath |-> r.haspath, downloaded |-> downloaded, handled |-> handled]

Refused(fs, exc) ==
    Installed([fs |-> fs, exc |-> exc, raised |-> exc, cleanup |-> "none",
               haspath |-> FALSE], FALSE, FALSE)

\* install_from_path: line 141 opens the archive in text mode
install_from_path(fs, a) ==
    Installed(_install_from_handle(fs, a, FALSE, "none", "none"), FALSE, TRUE)

\* install_from_url: the download goes to a binary temporary file
install_from_url(fs, a, dfault, fault, cfault) ==
    IF dfault = "download"
    THEN Installed([fs |-> fs, exc |-> "HTTPError@download", raised |-> "HTTPError@download",
                    cleanup |-> "none", haspath |-> FALSE], TRUE, FALSE)
    ELSE Installed(_install_from_handle(fs, a, TRUE, fault, cfault), TRUE, TRUE)

\* a catalog answer taken to name a version whatever it holds.  Not what
\* line 217 does; C12 must tell the two apart.
any_descriptor(desc) == FALSE

\* line 217: 'version' not in sdk_info
lacks_version(desc) == ~desc.hasVersion

install_remote_sdk(fs, desc, a, dfault, fault, cfault) ==
    IF dfault = "request" THEN Refused(fs, "HTTPError@request")
    ELSE IF lacks_version(desc) THEN Refused(fs, "CouldNotDownload")
    ELSE IF exists(fs, normpath(join(sdk_dir, desc.version)))
         THEN Refused(fs, "AlreadyInstalled")
    ELSE IF ~desc.reqOK THEN Refused(fs, "Unsatisfied")
    ELSE install_from_url(fs, a, dfault, fault, cfault)

(***************************************************************************)
(* SDKManager.make_tintin_sdk.  wscript: the given path holds the build    *)
(* script; pkg: the build output holds package.json.                       *)
(***************************************************************************)
make_tintin_sdk(fs, wscript, pkg, fault) ==
    LET dest_path == join(sdk_dir, TINTIN)
        made == mkdir(fs, dest_path)
        put(node) == setnode(made.fs, dest_path, node)
        skeleton == PlainDir
        written == [PlainDir EXCEPT !.mstate = "ok", !.version = TINTIN]
        venv == [written EXCEPT !.venv = TRUE]
        deps == [venv EXCEPT !.deps = TRUE]
    IN  IF ~wscript THEN Outcome(fs, "TintinNotFound")
        ELSE IF exists(fs, dest_path) THEN Outcome(fs, "TintinAlreadySetUp")
        ELSE IF ~made.ok THEN Outcome(fs, "OSError@mkdir")
        ELSE IF fault = "skeleton" THEN Outcome(put(skeleton), "OSError@skeleton")
        ELSE IF fault = "manifest"
             THEN Outcome(put([skeleton EXCEPT !.mstate = "bad"]), "OSError@manifest")
        ELSE IF fault = "venv" THEN Outcome(put(written), "CalledProcessError@venv")
        ELSE IF fault = "pip" THEN Outcome(put(venv), "CalledProcessError@pip")
        ELSE IF pkg /\ fault = "npm" THEN Outcome(put(deps), "NpmError")
        ELSE set_current_sdk(put(deps), TINTIN)

(***************************************************************************)
(* The inputs of the model.                                                *)
(***************************************************************************)
V1_5 == <<"1", ".", "5">>
V2 == <<"2">>
V10 == <<"1", "0">>
\* a sibling of the SDK root whose name begins with the root's name
VSIBLING == <<".", ".", "/", "S", "x">>
\* a traversal out of the SDK root
VOUTSIDE == <<".", ".", "/", "e">>
\* an absolute path
VABSOLUTE == <<"/", "e">>
\* the SDK root itself
VDOT == <<".">>

Released == {V1_5, V2, V10}
\* the version strings a manifest or a catalog descriptor may carry
ArchiveVersions == Released \cup {VSIBLING, VOUTSIDE, VABSOLUTE, VDOT, CURRENT}
\* the version strings a user may pass to uninstall_sdk and set_current_sdk
Versions == ArchiveVersions \cup {TINTIN}

SAFE_NAMES == << <<"s">>, <<"s", "/", "m">> >>
ABSOLUTE_NAMES == SAFE_NAMES \o << <<"/", "e", "/", "p">> >>
TRAVERSAL_NAMES == SAFE_NAMES \o << <<".", ".", "/", ".", ".", "/", "x">> >>

Archive(manifest, version, names, reqOK, pkg) ==
    [manifest |-> manifest, version |-> version, names |-> names, reqOK |-> reqOK,
     pkg |-> pkg]

\* the operation took no archive, or one without a readable manifest
NoArchive == Archive(FALSE, EMPTY, <<>>, FALSE, FALSE)

\* the archives that are not a well-formed SDK of version v
BadArchives(v) ==
    {Archive(TRUE, v, n, r, FALSE) :
        n \in {SAFE_NAMES, ABSOLUTE_NAMES, TRAVERSAL_NAMES}, r \in BOOLEAN}
    \ {Archive(TRUE, v, SAFE_NAMES, TRUE, FALSE)}

\* Every version comes as a well-formed archive with a package.json (an
\* archive without one behaves as one whose npm step succeeds); V2 and the
\* sibling also come with questionable member names and unmet requirements.
ArchivesOf(v) ==
    {Archive(TRUE, v, SAFE_NAMES, TRUE, TRUE)}
    \cup (IF v \in {V2, VSIBLING} THEN BadArchives(v) ELSE {})
    \cup (IF v = V2 THEN {Archive(TRUE, v, SAFE_NAMES, TRUE, FALSE)} ELSE {})

Archives == UNION {ArchivesOf(v) : v \in ArchiveVersions} \cup {NoArchive}
\* the archives install_from_path is tried on
LocalArchives == ArchivesOf(V2) \cup {NoArchive}

\* the operation asked the catalog nothing
NoDescriptor == [hasVersion |-> FALSE, version |-> EMPTY, reqOK |-> FALSE]

Descriptors ==
    {[hasVersion |-> TRUE, version |-> v, reqOK |-> r] : v \in ArchiveVersions, r \in BOOLEAN}
    \cup {[hasVersion |-> FALSE, version |-> EMPTY, reqOK |-> TRUE]}

Faults == {"none", "mkdir", "extract_none", "extract_bad", "extract_ok", "venv", "pip",
           "npm", "tc_download", "tc_names", "tc_mkdir", "tc_extract", "tc_move"}
\* the faults explored behind install_remote_sdk, whose handle stage is the
\* one install_from_url runs; a cleanup that fails is explored there
RemoteFaults == {"none", "venv"}
RmtreeFaults == {"none", "early", "partial"}
\* a partial deletion by the cleanup leaves what a failed extraction with
\* an early cleanup failure leaves
CleanupFaults == {"none", "early"}
\* The cleanup is made to fail after one failure of each kind of leftover:
\* no manifest, an invalid one, a valid one, and a valid one with the
\* pointer on it; and after a step that fails by itself.
CleanupFaultsFor(fault) ==
    IF fault \in {"none", "extract_none", "extract_bad", "venv", "tc_extract"}
    THEN CleanupFaults ELSE {"none"}
DownloadFaults == {"none", "request", "download"}
TintinFaults == {"none", "skeleton", "manifest", "venv", "pip", "npm"}

\* the exceptions raised before the destination directory is made
PRECHECKS ==
    {"TypeError", "KeyError", "AlreadyInstalled", "Questionable", "Suspicious", "Unsatisfied"}

\* a fault can only hit a step the call reaches
FaultsFor(f, a, all) ==
    IF install_try(Begin(f, a, TRUE, "none", "none")).raised \in PRECHECKS
    THEN {"none"} ELSE all

\* a released version as a completed install leaves it
Complete(v) ==
    [PlainDir EXCEPT !.mstate = "ok", !.version = v, !.venv = TRUE, !.deps = TRUE,
                     !.toolchain = "ok"]

\* the key of a lexically normal absolute path
KeyOf(path) == normcomps(split(path, SLASH), 1, <<>>, TRUE)

\* the SDK root with the versions of `installed` in it and the pointer on
\* `current` (on nothing when that is EMPTY)
RootWith(installed, current) ==
    LET base == (KeyOf(PERSIST_DIR) :> PlainDir) @@ (KeyOf(sdk_dir) :> PlainDir)
        dirs == [k \in {Append(KeyOf(sdk_dir), v) : v \in installed} |-> Complete(k[Len(k)])]
        link == IF current = EMPTY THEN <<>>
                ELSE Append(KeyOf(sdk_dir), CURRENT) :> LinkTo(join(sdk_dir, current))
    IN  link @@ dirs @@ base

\* the SDK roots a run may start from: a fresh one, and some that hold the
\* releases earlier runs installed, with the pointer on one of them
InitialRoots ==
    {RootWith({}, EMPTY), RootWith({V2}, V2), RootWith({V2, V10}, V10),
     RootWith(Released, V1_5)}

(***************************************************************************)
(* The version strings version_to_key is tried on.                         *)
(***************************************************************************)
MaxNumber == 1
MaxCounter == 1

\* str(n) of a non-negative integer
RECURSIVE str(_)
str(n) == IF n < 10 THEN <<DIGITS[n + 1]>>
          ELSE str(n \div 10) \o <<DIGITS[(n % 10) + 1]>>

\* "M", "M.N", "M.N.P" ... for the numbers up to MaxNumber
Dotted(n) ==
    {joinwith([i \in 1..n |-> str(c[i])], DOT) : c \in [1..n -> 0..MaxNumber]}

\* one, two or three numeric components
PlainVersions == Dotted(1) \cup Dotted(2) \cup Dotted(3)

\* a build-stage suffix and its counter on a full and on a short version
SuffixedHeads == {<<"1", ".", "0", ".", "0">>, <<"0", ".", "1">>}
Suffixed(h, i, n) == h \o <<DASH>> \o SUFFIXES[i] \o str(n)
SuffixedVersions ==
    {Suffixed(h, i, n) : h \in SuffixedHeads, i \in 1..Len(SUFFIXES), n \in 0..MaxCounter}

\* the chain "3.0.0" < "3.0.1" < "3.1.0-rc1" < "3.1.0"
V3_0_0 == <<"3", ".", "0", ".", "0">>
V3_0_1 == <<"3", ".", "0", ".", "1">>
V3_1_0_RC1 == <<"3", ".", "1", ".", "0", "-", "r", "c", "1">>
V3_1_0 == <<"3", ".", "1", ".", "0">>
ChainVersions == {V3_0_0, V3_0_1, V3_1_0_RC1, V3_1_0}

\* no dotted-numeric form: the empty string, text, a non-numeric or empty
\* component, a fourth component, a suffix without a counter, an unknown
\* suffix
VTEXT == <<"n", "t">>
UnparsedVersions ==
    {EMPTY, VTEXT, <<"1", ".", "x">>, <<"1", ".", ".", "0">>,
     <<"1", ".", "0", ".", "0", ".", "0">>,
     <<"1", ".", "0", ".", "0", "-", "r", "c">>,
     <<"1", ".", "0", ".", "0", "-", "x", "1">>}

VersionStrings ==
    PlainVersions \cup SuffixedVersions \cup ChainVersions \cup UnparsedVersions

(***************************************************************************)
(* The state machine.  Every command is a run of its own: it starts from   *)
(* the filesystem alone (__init__), makes one call and exits.              *)
(***************************************************************************)
VARIABLES
    fs,      \* the filesystem
    ops,     \* how many commands have been run
    last,    \* the call of the running command: what it was given, how it
             \* ended, and the filesystem it started from; op "none" between
             \* commands
    versions, \* the version strings handed to version_to_key
    keys,     \* what version_to_key returned for them; <<>> before the call
    run       \* the call that is followed statement by statement (a run of
              \* _install_from_handle or of set_current_sdk, or two concurrent
              \* runs of _install_from_handle); <<>> when none is

vars == <<fs, ops, last, versions, keys, run>>

Call(op, arg, a, r, pre) ==
    [op |-> op, arg |-> arg, a |-> a, desc |-> NoDescriptor, exc |-> r.exc, raised |-> r.raised,
     cleanup |-> r.cleanup, haspath |-> r.haspath, downloaded |-> r.downloaded,
     handled |-> r.handled, pre |-> pre]

\* a call that is no install
Plain(r) == Refused(r.fs, r.exc)

NoCall == Call("none", EMPTY, NoArchive, Plain(Outcome(<<>>, "none")), <<>>)

\* __init__: the SDK root exists; it may hold what earlier runs installed
Init ==
    /\ fs \in InitialRoots
    /\ ops = 0
    /\ last = NoCall
    /\ versions = <<>>
    /\ keys = <<>>
    /\ run = <<>>

Ready == last.op = "none" /\ ops < MaxOps

InstallFromPath ==
    /\ Ready
    /\ \E a \in LocalArchives :
         \E r \in {install_from_path(fs, a)} :
             /\ fs' = r.fs
             /\ last' = Call("install_from_path", a.version, a, r, fs)
    /\ ops' = ops + 1
    /\ UNCHANGED <<versions, keys, run>>

InstallFromUrl ==
    /\ Ready
    /\ \E dfault \in {"none", "download"} :
         \E a \in (IF dfault = "download" THEN {NoArchive} ELSE Archives) :
          \E fault \in FaultsFor(fs, a, Faults) :
           \E cfault \in CleanupFaultsFor(fault) :
            \E r \in {install_from_url(fs, a, dfault, fault, cfault)} :
                /\ cfault # "none" => r.cleanup = "failed"
                /\ fs' = r.fs
                /\ last' = Call("install_from_url", a.version, a, r, fs)
    /\ ops' = ops + 1
    /\ UNCHANGED <<versions, keys, run>>

InstallRemoteSdk ==
    /\ Ready
    /\ \E desc \in Descriptors, dfault \in DownloadFaults :
         \E a \in (IF install_remote_sdk(fs, desc, NoArchive, dfault, "none", "none").handled
                   THEN ArchivesOf(desc.version) ELSE {NoArchive}) :
            \E fault \in FaultsFor(fs, a, RemoteFaults) :
                \E r \in {install_remote_sdk(fs, desc, a, dfault, fault, "none")} :
                    /\ fs' = r.fs
                    /\ last' = [Call("install_remote_sdk", desc.version, a, r, fs)
                                  EXCEPT !.desc = desc]
    /\ ops' = ops + 1
    /\ UNCHANGED <<versions, keys, run>>

UninstallSdk ==
    /\ Ready
    /\ \E version \in Versions, fault \in RmtreeFaults :
         \E o \in uninstall_sdk(fs, version, fault) :
            /\ fault # "none" => o.exc = "OSError@rmtree"
            /\ fs' = o.fs
            /\ last' = Call("uninstall_sdk", version, NoArchive, Plain(o), fs)
    /\ ops' = ops + 1
    /\ UNCHANGED <<versions, keys, run>>

SetCurrentSdk ==
    /\ Ready
    /\ \E version \in Versions :
         \E o \in {set_current_sdk(fs, version)} :
             /\ fs' = o.fs
             /\ last' = Call("set_current_sdk", version, NoArchive, Plain(o), fs)
    /\ ops' = ops + 1
    /\ UNCHANGED <<versions, keys, run>>

MakeTintinSdk ==
    /\ Ready
    /\ \E wscript \in BOOLEAN, pkg \in BOOLEAN, fault \in TintinFaults :
         \E o \in {make_tintin_sdk(fs, wscript, pkg, fault)} :
             /\ fs' = o.fs
             /\ last' = Call("make_tintin_sdk", TINTIN, NoArchive, Plain(o), fs)
    /\ ops' = ops + 1
    /\ UNCHANGED <<versions, keys, run>>

\* the command ends; nothing but the filesystem outlives it
Exit ==
    /\ last.op # "none"
    /\ last' = NoCall
    /\ UNCHANGED <<fs, ops, versions, keys, run>>

Next ==
    \/ InstallFromPath
    \/ InstallFromUrl
    \/ InstallRemoteSdk
    \/ UninstallSdk
    \/ SetCurrentSdk
    \/ MakeTintinSdk
    \/ Exit

Spec == Init /\ [][Next]_vars

(***************************************************************************)
(* version_to_key on its own: three version strings are drawn, and the     *)
(* call maps each of them to its key, as sorted(..., key=version_to_key)   *)
(* does for the elements it compares.                                      *)
(***************************************************************************)
KeyInit ==
    /\ versions \in VersionStrings \X VersionStrings \X VersionStrings
    /\ keys = <<>>
    /\ fs \in {RootWith({}, EMPTY)}
    /\ ops = 0
    /\ last = NoCall
    /\ run = <<>>

VersionToKey ==
    /\ keys = <<>>
    /\ keys' = [i \in 1..Len(versions) |-> version_to_key(versions[i])]
    /\ UNCHANGED <<fs, ops, last, versions, run>>

KeyNext == VersionToKey

KeySpec == KeyInit /\ [][KeyNext]_vars

(***************************************************************************)
(* _install_from_handle statement by statement: one install, from          *)
(* install_from_path (a text-mode handle) or install_from_url (a binary    *)
(* one), followed from its first statement to its return or raise.  `last` *)
(* holds the call as far as it has come.                                   *)
(***************************************************************************)
Running(op, c, pre) == Call(op, c.a.version, c.a, Installed(c, op = "install_from_url", TRUE), pre)

StepInit ==
    /\ \E f \in InitialRoots, binary \in BOOLEAN :
         \E a \in (IF binary THEN Archives ELSE LocalArchives) :
          \E fault \in (IF binary THEN FaultsFor(f, a, Faults) ELSE {"none"}) :
           \E cfault \in CleanupFaultsFor(fault) :
            \E c \in {Begin(f, a, binary, fault, cfault)} :
                /\ fs = f
                /\ run = c
                /\ last = Running(IF binary THEN "install_from_url" ELSE "install_from_path",
                                  c, f)
    /\ ops = 0
    /\ versions = <<>>
    /\ keys = <<>>

InstallStep ==
    /\ run.pc \notin {"returned", "raised"}
    /\ \E c \in {install_step(run)} :
           /\ run' = c
           /\ fs' = c.fs
           /\ last' = Running(last.op, c, last.pre)
    /\ UNCHANGED <<ops, versions, keys>>

StepNext == InstallStep

StepSpec == StepInit /\ [][StepNext]_vars

(***************************************************************************)
(* set_current_sdk statement by statement, on every filesystem one command *)
(* can leave behind, with the process killed at any point of the swap.     *)
(* A run is [fs, pc, version, exc, at]: the filesystem, the statement it   *)
(* is at, the requested version, the exception that left the call, and     *)
(* the statement at which the process was killed.                          *)
(***************************************************************************)
\* the filesystems a first command leaves
ReachedRoots ==
    InitialRoots
    \cup UNION {UNION {{install_from_url(f, a, "none", fault, cfault).fs :
                           cfault \in CleanupFaultsFor(fault)} :
                       fault \in FaultsFor(f, a, Faults)} :
                f \in InitialRoots, a \in Archives}
    \cup UNION {{o.fs : o \in uninstall_sdk(f, v, fault)} :
                f \in InitialRoots, v \in Versions, fault \in RmtreeFaults}
    \cup {make_tintin_sdk(f, TRUE, pkg, fault).fs :
             f \in InitialRoots, pkg \in BOOLEAN, fault \in TintinFaults}

SwapBegin(f, version) ==
    [fs |-> f, pc |-> "exists", version |-> version, exc |-> "none", at |-> "none"]

\* one statement of set_current_sdk
set_current_step(c) ==
    LET path == join(sdk_dir, c.version)
    IN  CASE c.pc = "exists" ->
                \* lines 240-242
                IF ~exists(c.fs, path)
                THEN [c EXCEPT !.pc = "raised", !.exc = "NotInstalled"]
                ELSE [c EXCEPT !.pc = "unlink"]
          [] c.pc = "unlink" ->
                \* lines 244-247: the OSError of os.unlink is swallowed
                [c EXCEPT !.fs = unlink(c.fs, _current_path).fs, !.pc = "symlink"]
          [] c.pc = "symlink" ->
                \* line 248
                LET l == symlink(c.fs, path, _current_path)
                IN  IF l.ok THEN [c EXCEPT !.fs = l.fs, !.pc = "returned"]
                    ELSE [c EXCEPT !.pc = "raised", !.exc = "OSError@symlink"]

SwapInit ==
    /\ \E f \in ReachedRoots, version \in Versions :
           /\ fs = f
           /\ run = SwapBegin(f, version)
           /\ last = Call("set_current_sdk", version, NoArchive, Plain(Outcome(f, "none")), f)
    /\ ops = 0
    /\ versions = <<>>
    /\ keys = <<>>

SetCurrentStep ==
    /\ run.pc \in {"exists", "unlink", "symlink"}
    /\ \E c \in {set_current_step(run)} :
           /\ run' = c
           /\ fs' = c.fs
           /\ last' = Call("set_current_sdk", c.version, NoArchive,
                           Plain(Outcome(c.fs, c.exc)), last.pre)
    /\ UNCHANGED <<ops, versions, keys>>

\* the process is killed before a statement of the swap
Crash ==
    /\ run.pc \in {"unlink", "symlink"}
    /\ run' = [run EXCEPT !.pc = "crashed", !.at = run.pc]
    /\ UNCHANGED <<fs, ops, last, versions, keys>>

SwapNext == SetCurrentStep \/ Crash

SwapSpec == SwapInit /\ [][SwapNext]_vars

(***************************************************************************)
(* Two installs of one version by two processes on the same SDK root,      *)
(* interleaved statement by statement.  run is [p, raced, pre]: the two    *)
(* runs of _install_from_handle (their filesystem is the shared fs),       *)
(* whether both had passed the line-152 check before either reached        *)
(* os.mkdir's effect, and the filesystem they started from.                *)
(***************************************************************************)
\* the statements between the already-installed check and the creation of
\* the destination
BEFORE_MKDIR == {"names", "contained", "requirements", "mkdir"}

\* One statement of a run whose destination another process may have
\* deleted meanwhile.  `python -m venv` makes the directories it needs
\* (os.makedirs); pip finds no sdk-core/requirements.txt and the move of
\* the toolchain no toolchain folder, and they fail.
race_step(c) ==
    LET dest == join(sdk_dir, c.a.version)
        gone == ~exists(c.fs, dest)
    IN  IF c.pc = "venv" /\ gone
        THEN [c EXCEPT !.fs = with_venv(mkdir(c.fs, dest).fs, dest), !.pc = "pip"]
        ELSE IF c.pc = "pip" /\ (gone \/ getnode(c.fs, dest).mstate # "ok")
        THEN [c EXCEPT !.pc = "except", !.raised = "CalledProcessError@pip"]
        ELSE IF c.pc = "tc_move" /\ gone
        THEN [c EXCEPT !.pc = "except", !.raised = "OSError@tc_move"]
        ELSE install_step(c)

RaceInit ==
    /\ \E f \in InitialRoots, v \in Released :
         \E c \in {Begin(<<>>, Archive(TRUE, v, SAFE_NAMES, TRUE, TRUE), TRUE, "none", "none")} :
           /\ ~exists(f, join(sdk_dir, v))
           /\ fs = f
           /\ run = [p |-> <<c, c>>, raced |-> FALSE, pre |-> f]
    /\ ops = 0
    /\ last = NoCall
    /\ versions = <<>>
    /\ keys = <<>>

\* process i runs its next statement on the shared filesystem
RaceStep(i) ==
    /\ run.p[i].pc \notin {"returned", "raised"}
    /\ \E c \in {race_step([run.p[i] EXCEPT !.fs = fs])} :
         \E p \in {[run.p EXCEPT ![i] = [c EXCEPT !.fs = <<>>]]} :
           /\ fs' = c.fs
           /\ run' = [run EXCEPT !.p = p,
                                 !.raced = run.raced \/ \A j \in 1..2 : p[j].pc \in BEFORE_MKDIR]
    /\ UNCHANGED <<ops, last, versions, keys>>

RaceNext == \E i \in 1..2 : RaceStep(i)

RaceSpec == RaceInit /\ [][RaceNext]_vars

(***************************************************************************)
(* The claims.  They speak of the call the running command made: `last`    *)
(* holds what it was given and the filesystem it started from, fs the      *)
(* filesystem it left.                                                     *)
(***************************************************************************)
IsInstall == last.op \in {"install_from_path", "install_from_url", "install_remote_sdk"}

\* _install_from_handle was given an archive that holds a readable manifest
Given == IsInstall /\ last.handled /\ last.a.manifest

\* ... and it read that manifest: `path` is the destination
Handle == Given /\ last.haspath

\* the destination of the archive's version, and of the catalog's
Dest == normpath(join(sdk_dir, last.a.version))
CatalogDest == normpath(join(sdk_dir, last.desc.version))

\* install_remote_sdk got the catalog's answer and it names a version
Catalogued ==
    last.op = "install_remote_sdk" /\ last.desc.hasVersion /\ last.exc # "HTTPError@request"

\* what f holds at and below the directory that path named before the call
Tree(f, path) ==
    LET k == stat(last.pre, path).key
    IN  Restrict(f, {l \in DOMAIN f : IsPrefix(k, l)})

\* a lexically normal path that lies inside the SDK root, by components
InsideRoot(path) ==
    IsPrefix(KeyOf(sdk_dir), KeyOf(path)) /\ KeyOf(path) # KeyOf(sdk_dir)

\* what the call created
Created == DOMAIN fs \ DOMAIN last.pre

\* the pointer itself: the node at <root>/current, not what it resolves to
Pointer(f) ==
    LET l == lstat(f, _current_path)
    IN  IF l.ok /\ l.key \in DOMAIN f THEN <<f[l.key]>> ELSE <<>>

\* the entries of the SDK root
Entries(f) ==
    {k \in DOMAIN f : Len(k) = Len(KeyOf(sdk_dir)) + 1 /\ IsPrefix(KeyOf(sdk_dir), k)}

\* an entry that is a directory of its own with a parseable manifest
Parseable(f, k) == f[k].kind = "dir" /\ f[k].mstate = "ok"

\* C1: an install of a version whose destination directory already exists
\* fails with "already installed" and leaves that directory and all its
\* contents as they were, through _install_from_handle (once it has read
\* the manifest) as well as through install_remote_sdk.
C1_ExistingInstallationUntouched ==
    /\ (Handle /\ exists(last.pre, Dest))
          => /\ last.exc = "AlreadyInstalled"
             /\ Tree(fs, Dest) = Tree(last.pre, Dest)
    /\ (Catalogued /\ exists(last.pre, CatalogDest))
          => /\ last.exc = "AlreadyInstalled"
             /\ Tree(fs, CatalogDest) = Tree(last.pre, CatalogDest)

\* C1, the half that holds: install_remote_sdk raises "already installed"
\* before it downloads, outside the try block, and changes nothing.
C1_RemoteCheckUntouched ==
    (Catalogued /\ exists(last.pre, CatalogDest))
        => last.exc = "AlreadyInstalled" /\ ~last.downloaded /\ fs = last.pre

\* C2: a successful install of a version that was not installed makes it
\* appear in list_local_sdk_versions(), and a successful uninstall of a
\* version makes it disappear from it.
C2_RoundTrip ==
    /\ (Handle /\ last.exc = "none" /\ last.a.version \notin list_local_sdk_versions(last.pre))
          => last.a.version \in list_local_sdk_versions(fs)
    /\ (last.op = "uninstall_sdk" /\ last.exc = "none")
          => last.arg \notin list_local_sdk_versions(fs)

\* C2, the half that holds: after a successful uninstall_sdk(V), V is not
\* in list_local_sdk_versions().
C2_UninstallRemovesFromList ==
    (last.op = "uninstall_sdk" /\ last.exc = "none")
        => last.arg \notin list_local_sdk_versions(fs)

HasQuestionableName ==
    \E i \in 1..Len(last.a.names) :
        \/ last.a.names[i][1] = SLASH
        \/ \E j \in 1..(Len(last.a.names[i]) - 1) :
              last.a.names[i][j] = DOT /\ last.a.names[i][j + 1] = DOT

\* C3 as stated: an archive with an absolute or a traversing member name,
\* once its manifest was read, is rejected with the security error, nothing
\* is written, and the destination directory is absent afterwards.
C3_QuestionableAlwaysSecurityError ==
    (Handle /\ HasQuestionableName)
        => /\ last.exc = "Questionable"
           /\ Created = {}
           /\ ~exists(fs, Dest)

\* C3, amended: an archive with an absolute or a traversing member name is
\* always rejected and nothing of it is written.  When its manifest was
\* read and the destination does not exist yet, the rejection is the
\* security error and the filesystem is left as it was, the destination
\* absent; when the destination exists, the "already installed" check of
\* line 152 comes first; when the handle is the text-mode one of
\* install_from_path, the archive is never read.
C3_QuestionableRejectedBeforeWriting ==
    (Given /\ HasQuestionableName)
        => /\ last.exc # "none" /\ Created = {}
           /\ IF ~last.haspath THEN last.exc = "TypeError" /\ fs = last.pre
              ELSE IF exists(last.pre, Dest) THEN last.exc = "AlreadyInstalled"
              ELSE last.exc = "Questionable" /\ fs = last.pre /\ ~exists(fs, Dest)

C3_Witness ==
    /\ Handle /\ HasQuestionableName
    /\ ~exists(last.pre, Dest)
    /\ last.exc = "Questionable"
    /\ last.a.names = TRAVERSAL_NAMES

\* C4: an install whose normalised destination is not inside the SDK root
\* is rejected and creates nothing; every directory an install creates
\* lies inside the SDK root.
C4_InstallStaysInsideRoot ==
    /\ (Given /\ ~InsideRoot(Dest)) => last.exc # "none" /\ Created = {}
    /\ IsInstall => \A k \in Created : IsPrefix(KeyOf(sdk_dir), k) /\ k # KeyOf(sdk_dir)

\* C5 as stated: a failed install of a version that was not installed
\* leaves that version out of list_local_sdk_versions(), and when the
\* failure came after the destination directory was made, the directory
\* has been deleted.
C5_FailedInstallAlwaysCleaned ==
    (Given /\ last.exc # "none" /\ last.a.version \notin list_local_sdk_versions(last.pre))
        => /\ last.a.version \notin list_local_sdk_versions(fs)
           /\ last.raised \notin PRECHECKS \cup {"OSError@mkdir"} => ~exists(fs, Dest)

\* C5, amended: the same, unless the deletion of the destination itself
\* failed (line 190 only logs that).
C5_FailedInstallCleanedUnlessCleanupFails ==
    (/\ Given /\ last.exc # "none"
     /\ last.a.version \notin list_local_sdk_versions(last.pre)
     /\ last.cleanup # "failed")
        => /\ last.a.version \notin list_local_sdk_versions(fs)
           /\ last.raised \notin PRECHECKS \cup {"OSError@mkdir"} => ~exists(fs, Dest)

C5_Witness ==
    /\ Handle
    /\ last.raised = "HTTPError@toolchain"
    /\ last.cleanup = "done"
    /\ last.a.version \notin list_local_sdk_versions(last.pre)
    /\ ~exists(fs, Dest)

\* C6: the exception that leaves a failed install is the one the failing
\* step raised, whether the cleanup's deletion succeeded, failed or was
\* not attempted; it is never the cleanup's.
C6_OriginalErrorPropagates ==
    (IsInstall /\ last.handled /\ last.raised # "none")
        => last.exc = last.raised /\ last.exc # "OSError@cleanup"

C6_Witness ==
    /\ Handle
    /\ last.cleanup = "failed"
    /\ last.exc = "CalledProcessError@venv"
    /\ exists(fs, Dest)

\* C7: an install whose requirements are not satisfied fails without
\* touching the SDK root: no destination is created, the installed
\* versions and the pointer stay; install_remote_sdk fails before it
\* downloads.
C7_UnmetRequirementsMutateNothing ==
    /\ (Given /\ ~last.a.reqOK)
          => /\ last.exc # "none"
             /\ Created = {}
             /\ list_local_sdk_versions(fs) = list_local_sdk_versions(last.pre)
             /\ Pointer(fs) = Pointer(last.pre)
             /\ get_current_sdk(fs) = get_current_sdk(last.pre)
    /\ (Catalogued /\ ~last.desc.reqOK)
          => last.exc # "none" /\ ~last.downloaded /\ fs = last.pre

\* C7, the half that holds: install_remote_sdk with unmet requirements in
\* the catalog's descriptor fails before any download and changes nothing.
C7_RemoteUnmetBeforeDownload ==
    (Catalogued /\ ~last.desc.reqOK)
        => last.exc # "none" /\ ~last.downloaded /\ fs = last.pre

\* uninstall_sdk(V) removed the directory of the version the pointer was on
RemovedCurrent ==
    /\ last.op = "uninstall_sdk"
    /\ get_current_sdk(last.pre) = [exc |-> "none", none |-> FALSE, version |-> last.arg]
    /\ last.exc # "OSError@rmtree"

Remaining == list_local_sdk_versions(last.pre) \ {last.arg}

\* C8: after uninstall_sdk(V) removed the version the pointer was on, the
\* pointer is on a remaining installed version whose version_to_key no
\* other remaining one exceeds; when none remains there is no pointer and
\* get_current_sdk() is None.  The call raises nothing when the pointer was
\* a symlink.
C8_PointerMovesToMaximum ==
    RemovedCurrent
        => /\ islink(last.pre, _current_path) => last.exc = "none"
           /\ IF Remaining = {}
              THEN /\ Pointer(fs) = <<>>
                   /\ get_current_sdk(fs) = [exc |-> "none", none |-> TRUE, version |-> EMPTY]
              ELSE \E v \in Remaining :
                       /\ \A w \in Remaining : ~keyless(version_to_key(v), version_to_key(w))
                       /\ Pointer(fs) = <<LinkTo(join(sdk_dir, v))>>
                       /\ get_current_sdk(fs) = [exc |-> "none", none |-> FALSE, version |-> v]

\* the order of the keys differs from the order of the strings here
C8_Witness ==
    /\ RemovedCurrent
    /\ last.arg = V1_5
    /\ Remaining = {V2, V10}
    /\ get_current_sdk(fs).version = V10

C8_WitnessNoneRemains ==
    RemovedCurrent /\ Remaining = {} /\ Pointer(last.pre) # <<>> /\ last.exc = "none"

\* C9: set_current_sdk(version) fails and leaves the pointer as it was for
\* every version that is not in list_local_sdk_versions().
C9_OnlyInstalledBecomesCurrent ==
    (last.op = "set_current_sdk" /\ last.arg \notin list_local_sdk_versions(last.pre))
        => last.exc # "none" /\ Pointer(fs) = Pointer(last.pre)

\* C10: list_local_sdks(), called by a command on whatever filesystem the
\* commands before it left, never raises; it leaves out every entry of the
\* SDK root that is a symlink, a directory without a manifest or a
\* directory whose manifest has invalid syntax, and holds the manifest of
\* every other directory exactly once.
C10_ListExcludesAndCountsOnce ==
    last.op = "none" =>
        LET listed == list_local_sdks(fs)
            parseable == {k \in Entries(fs) : Parseable(fs, k)}
        IN  /\ listed.exc = "none"
            /\ BagCardinality(listed.sdks) = Cardinality(parseable)
            /\ \A k \in parseable :
                  CopiesIn([version |-> fs[k].version], listed.sdks)
                     = Cardinality({l \in parseable : fs[l].version = fs[k].version})

C10_Witness ==
    /\ last.op = "none"
    /\ \E k \in Entries(fs) : fs[k].kind = "link" /\ exists(fs, _current_path)
    /\ \E k \in Entries(fs) : fs[k].kind = "dir" /\ fs[k].mstate = "none"
    /\ \E k \in Entries(fs) : fs[k].kind = "dir" /\ fs[k].mstate = "bad"
    /\ \E k \in Entries(fs) : Parseable(fs, k)

\* what the pointer resolves to: the node at the end of <root>/current
\* with symlinks followed, <<>> when it resolves to nothing
Resolved(f) ==
    LET r == stat(f, _current_path)
    IN  IF r.ok /\ r.key \in DOMAIN f THEN <<f[r.key]>> ELSE <<>>

\* C11: get_current_sdk(), called by a command on whatever filesystem the
\* commands before it left, never raises; it is None when the pointer is
\* absent or dangling or its target holds no manifest or one that cannot be
\* parsed, and the version of the target's manifest otherwise.
C11_GetCurrentNeverRaises ==
    last.op = "none" =>
        LET got == get_current_sdk(fs)
            target == Resolved(fs)
        IN  /\ got.exc = "none"
            /\ IF target # <<>> /\ target[1].mstate = "ok"
               THEN got = [exc |-> "none", none |-> FALSE, version |-> target[1].version]
               ELSE got.none

\* C11, the part that holds: when the pointer is absent or dangling or its
\* target holds no manifest, get_current_sdk() is None; when the target's
\* manifest parses, it is that manifest's version.
C11_GetCurrentWhenReadable ==
    (last.op = "none" /\ (Resolved(fs) = <<>> \/ Resolved(fs)[1].mstate # "bad")) =>
        LET got == get_current_sdk(fs)
            target == Resolved(fs)
        IN  IF target # <<>> /\ target[1].mstate = "ok"
            THEN got = [exc |-> "none", none |-> FALSE, version |-> target[1].version]
            ELSE got = [exc |-> "none", none |-> TRUE, version |-> EMPTY]

\* C12: when the catalog answers install_remote_sdk with a descriptor that
\* has no version field, the call fails with "could not be downloaded",
\* downloads nothing and leaves the filesystem, and so the installed
\* versions and the pointer, as they were.
C12_NoVersionNoDownload ==
    (last.op = "install_remote_sdk" /\ ~last.desc.hasVersion
       /\ last.exc # "HTTPError@request")
        => /\ last.exc = "CouldNotDownload"
           /\ ~last.downloaded /\ ~last.handled
           /\ fs = last.pre
           /\ list_local_sdk_versions(fs) = list_local_sdk_versions(last.pre)
           /\ Pointer(fs) = Pointer(last.pre)

C12_Witness ==
    /\ last.op = "install_remote_sdk" /\ ~last.desc.hasVersion
    /\ last.exc = "CouldNotDownload"
    /\ list_local_sdk_versions(last.pre) = Released
    /\ Pointer(fs) # <<>>

(***************************************************************************)
(* Claims on version_to_key, under KeySpec.                                *)
(***************************************************************************)
Applied == keys # <<>>

\* the order sorted() sees between the i-th and the j-th version
Less(i, j) == keyless(keys[i], keys[j])

Chain == <<V3_0_0, V3_0_1, V3_1_0_RC1, V3_1_0>>

\* "3.0.0" < "3.0.1" < "3.1.0-rc1" < "3.1.0", link by link
ChainOrdered(lt) ==
    \A i, j \in 1..Len(versions), n \in 1..(Len(Chain) - 1) :
        (versions[i] = Chain[n] /\ versions[j] = Chain[n + 1]) => lt[i, j]

\* the whole relation among the drawn versions
Order == [i \in 1..Len(versions), j \in 1..Len(versions) |-> Less(i, j)]

Transitive(lt) ==
    \A i, j, k \in 1..Len(versions) : (lt[i, j] /\ lt[j, k]) => lt[i, k]

\* exactly one of the three holds
ExactlyOne(p, q, r) == (p /\ ~q /\ ~r) \/ (~p /\ q /\ ~r) \/ (~p /\ ~q /\ r)

\* C13 as stated: the order version_to_key induces on version strings is a
\* total order: of a<b, a=b, b<a exactly one holds for any two version
\* strings, the order is transitive, and "3.0.0" < "3.0.1" < "3.1.0-rc1" <
\* "3.1.0".
C13_TotalOrderOnStrings ==
    Applied =>
        \E lt \in {Order} :
            /\ \A i, j \in 1..Len(versions) :
                   ExactlyOne(lt[i, j], versions[i] = versions[j], lt[j, i])
            /\ Transitive(lt)
            /\ ChainOrdered(lt)

\* C13, amended: the order is total on the keys, not on the strings: of
\* key(a)<key(b), key(a)=key(b), key(b)<key(a) exactly one holds, equal
\* strings have equal keys, the order is transitive, and the chain
\* "3.0.0" < "3.0.1" < "3.1.0-rc1" < "3.1.0" is ordered.
C13_TotalOrderOnKeys ==
    Applied =>
        \E lt \in {Order} :
            /\ \A i, j \in 1..Len(versions) :
                   /\ ExactlyOne(lt[i, j], keys[i] = keys[j], lt[j, i])
                   /\ versions[i] = versions[j] => keys[i] = keys[j]
            /\ Transitive(lt)
            /\ ChainOrdered(lt)

C13_Witness ==
    /\ Applied
    /\ versions = <<V3_0_1, V3_1_0_RC1, V3_1_0>>
    /\ Less(1, 2) /\ Less(2, 3) /\ Less(1, 3)

\* C14: for a fixed major.minor.patch the build-stage suffixes rank
\* dp < beta < rc < no suffix, with the classes -3, -2, -1, 0, and two
\* versions with the same numbers and the same suffix are ordered by the
\* suffix's counter.
C14_SuffixesRanked ==
    (Applied /\ \E i \in 1..Len(versions) : versions[i] \in SuffixedVersions) =>
        \A i \in 1..Len(versions), h \in SuffixedHeads,
           m \in 1..Len(SUFFIXES), n \in 0..MaxCounter :
            versions[i] = Suffixed(h, m, n) =>
                /\ keys[i][4] = <<0 - 3, 0 - 2, 0 - 1>>[m]
                /\ keys[i][5] = n
                /\ keys[i][6] = EMPTY
                /\ \A j \in 1..Len(versions) :
                       /\ versions[j] = h => (keys[j][4] = 0 /\ Less(i, j) /\ ~Less(j, i))
                       /\ \A mm \in 1..Len(SUFFIXES), nn \in 0..MaxCounter :
                              versions[j] = Suffixed(h, mm, nn) =>
                                  /\ SubSeq(keys[i], 1, 3) = SubSeq(keys[j], 1, 3)
                                  /\ m < mm => Less(i, j)
                                  /\ (m = mm /\ n < nn) => Less(i, j)

\* dp1 < beta0 < beta1 of one version: the class decides before the counter
C14_Witness ==
    /\ Applied
    /\ \E h \in SuffixedHeads :
           versions = <<Suffixed(h, 1, 1), Suffixed(h, 2, 0), Suffixed(h, 2, 1)>>
    /\ Less(1, 2) /\ Less(2, 3)

\* the strings that have the dotted-numeric form, with or without a suffix
ParsedVersions == PlainVersions \cup SuffixedVersions \cup ChainVersions

\* the fallback key of a string
RawKey(version) == <<0, 0, 0, 0, 0, version>>

\* C15: version_to_key is total and deterministic: every string, the empty
\* one and non-numeric text included, gets a 6-tuple; a string without
\* dotted-numeric form gets (0, 0, 0, 0, 0, <the string>), and every string
\* that parses gets an empty fallback field.
C15_TotalAndDeterministic ==
    Applied =>
        \A i \in 1..Len(versions) :
            /\ Len(keys[i]) = 6
            /\ \A n \in 1..5 : keys[i][n] \in Int
            /\ versions[i] \in {EMPTY, VTEXT} => keys[i] = RawKey(versions[i])
            /\ versions[i] \in ParsedVersions =>
                   (keys[i][6] = EMPTY /\ \A n \in 1..3 : keys[i][n] \in Nat)
            /\ keys[i][6] # EMPTY => keys[i] = RawKey(versions[i])
            /\ \A j \in 1..Len(versions) : versions[i] = versions[j] => keys[i] = keys[j]

C15_Witness ==
    /\ Applied
    /\ versions = <<EMPTY, VTEXT, V3_0_0>>
    /\ keys = <<RawKey(EMPTY), RawKey(VTEXT), <<3, 0, 0, 0, 0, EMPTY>> >>

\* the version string of the numbers in ns
Numbered(ns) == joinwith([i \in 1..Len(ns) |-> str(ns[i])], DOT)

\* the strings that lack a minor or a patch number or have them 0, each with
\* the key of its zero-padded form
ZeroPadded ==
    UNION {{<<Numbered(<<M>>), <<M, 0, 0, 0, 0, EMPTY>> >>,
            <<Numbered(<<M, N>>), <<M, N, 0, 0, 0, EMPTY>> >>,
            <<Numbered(<<M, N, 0>>), <<M, N, 0, 0, 0, EMPTY>> >>} : M, N \in 0..MaxNumber}

\* C16: fewer than three numeric components are zero-padded on the right:
\* "M", "M.0" and "M.0.0" have one key, and so have "M.N" and "M.N.0".
C16_ZeroPadded ==
    Applied =>
        \A i \in 1..Len(versions), e \in ZeroPadded : versions[i] = e[1] => keys[i] = e[2]

C16_Witness ==
    /\ Applied
    /\ versions = <<Numbered(<<1>>), Numbered(<<1, 0>>), Numbered(<<1, 0, 0>>)>>
    /\ keys[1] = keys[2] /\ keys[2] = keys[3]

(***************************************************************************)
(* Claims on the order of the statements of an install, under StepSpec.    *)
(***************************************************************************)
\* the statements of the toolchain install
TOOLCHAIN_STEPS ==
    {"tc_download", "tc_names", "tc_contained", "tc_mkdir", "tc_extract", "tc_move"}

\* extraction and the post-install steps have succeeded in f: the
\* destination holds the manifest, the virtual environment and the
\* dependencies
PostInstalled(f) ==
    /\ exists(f, Dest)
    /\ LET n == getnode(f, Dest)
       IN  n.kind = "dir" /\ n.mstate = "ok" /\ n.venv /\ n.deps

\* the pointer is on the version being installed
PointerOnNew(f) == Pointer(f) = <<LinkTo(join(sdk_dir, run.a.version))>>

\* C17: in every run of the install the pointer is changed only by the
\* set_current_sdk statement, which is reached only after extraction, venv,
\* dependency install and the optional JS dependency install have succeeded;
\* the toolchain install is started only after the pointer was set to the
\* new version; a run in which an earlier step fails never touches the
\* pointer.
C17_PointerOnlyAfterPostInstall ==
    [][/\ Pointer(fs') # Pointer(fs) =>
              (run.pc = "set_current" /\ PostInstalled(fs) /\ PointerOnNew(fs'))
       /\ run'.pc \in TOOLCHAIN_STEPS =>
              (PostInstalled(fs') /\ PointerOnNew(fs'))]_vars

\* the order holds in every run whose manifest names a released version:
\* the destination is then an entry of the SDK root other than the pointer
C17_ReleasedInOrder ==
    [][run.a.version \in Released =>
          /\ Pointer(fs') # Pointer(fs) =>
                 (run.pc = "set_current" /\ PostInstalled(fs) /\ PointerOnNew(fs'))
          /\ run'.pc \in TOOLCHAIN_STEPS =>
                 (PostInstalled(fs') /\ PointerOnNew(fs'))]_vars

\* C18: after every completed operation, successful or failed, a version
\* that get_current_sdk() returns is in list_local_sdk_versions(): the
\* pointer never resolves to a version that is not installed.
C18_CurrentIsListed ==
    last.op # "none" =>
        \A got \in {get_current_sdk(fs)} :
            (got.exc = "none" /\ ~got.none) => got.version \in list_local_sdk_versions(fs)

\* the same for the operations that were given a released version or none
C18_ReleasedCurrentIsListed ==
    (last.op # "none" /\ last.arg \in Released \cup {EMPTY, TINTIN}) =>
        \A got \in {get_current_sdk(fs)} :
            (got.exc = "none" /\ ~got.none /\ got.version \in Released \cup {TINTIN})
                => got.version \in list_local_sdk_versions(fs)

\* get_current_sdk() returned a version before the call
Selected(f) == get_current_sdk(f).exc = "none" /\ ~get_current_sdk(f).none

\* the exceptions of the toolchain install, raised after set_current_sdk
TOOLCHAIN_ERRORS ==
    {"HTTPError@toolchain", "Questionable@toolchain", "Suspicious@toolchain",
     "OSError@tc_mkdir", "OSError@tc_extract", "OSError@tc_move"}

\* every failed install leaves the current selection as it was: when
\* get_current_sdk() returned X before an install that ends in failure,
\* whatever the step that failed, get_current_sdk() returns X afterwards
C19_FailedInstallKeepsSelection ==
    (IsInstall /\ last.exc # "none" /\ Selected(last.pre))
        => get_current_sdk(fs) = get_current_sdk(last.pre)

\* C19, the case the claim names: when get_current_sdk() returned X before
\* an install of a released version whose toolchain install fails, after the
\* pointer was switched to the new version, get_current_sdk() returns X
\* after the failure cleanup.
C19_ToolchainFailureKeepsSelection ==
    (IsInstall /\ last.raised \in TOOLCHAIN_ERRORS /\ Selected(last.pre)
              /\ last.a.version \in Released)
        => get_current_sdk(fs) = get_current_sdk(last.pre)

\* what holds: a failure before set_current_sdk of an install whose
\* destination did not exist leaves the selection as it was
C19_EarlyFailureKeepsSelection ==
    (IsInstall /\ last.exc # "none" /\ Selected(last.pre)
              /\ last.raised \notin TOOLCHAIN_ERRORS
              /\ last.a.version \in Released /\ ~exists(last.pre, Dest))
        => get_current_sdk(fs) = get_current_sdk(last.pre)

\* the directories that existed before the call are all there, as they were
OldDirectoriesKept ==
    \A k \in DOMAIN last.pre :
        last.pre[k].kind = "dir" => (k \in DOMAIN fs /\ fs[k] = last.pre[k])

\* C20: the failure cleanup of an install deletes only the destination
\* directory this run created: whatever the manifest's version string and
\* the failing step, no directory that existed before the run (an existing
\* installation, the SDK root, a path outside the SDK root) is deleted or
\* modified.
C20_CleanupSparesOldDirectories ==
    (IsInstall /\ last.exc # "none") => OldDirectoriesKept

\* what holds: a failed install whose destination did not exist before the
\* run leaves every directory that did
C20_FreshDestinationSparesOldDirectories ==
    (IsInstall /\ last.exc # "none" /\ (Handle => ~exists(last.pre, Dest)))
        => OldDirectoriesKept

\* the toolchain directory of the version being installed exists in f,
\* whatever it holds
ToolchainDir(f) == exists(f, Dest) /\ getnode(f, Dest).toolchain # "none"

\* C21: a toolchain install is all-or-nothing: when it fails at any stage
\* (download, member-name check, directory creation, extraction, the move
\* of the platform folder's contents), the version's toolchain directory
\* does not exist afterwards; no partially extracted or half-moved one is
\* left.
C21_ToolchainAllOrNothing ==
    (IsInstall /\ last.raised \in TOOLCHAIN_ERRORS) => ~ToolchainDir(fs)

\* what holds: the toolchain directory goes with the version's directory
\* when the cleanup of the install that called the toolchain install
\* succeeds
C21_ToolchainGoneWhenCleanedUp ==
    (IsInstall /\ last.raised \in TOOLCHAIN_ERRORS /\ last.cleanup = "done")
        => ~exists(fs, Dest)

TintinDest == join(sdk_dir, TINTIN)

\* make_tintin_sdk failed on a root that held no tintin entry
FailedLink ==
    /\ last.op = "make_tintin_sdk"
    /\ last.exc # "none"
    /\ ~exists(last.pre, TintinDest)

\* C22: a failed legacy link leaves no visible version: when make_tintin_sdk
\* fails at any step (missing build script, venv creation, dependency
\* install, JS dependency install), "tintin" is not in
\* list_local_sdk_versions() afterwards and a later make_tintin_sdk on a
\* valid path is not rejected as already set up.
C22_FailedLinkLeavesNothing ==
    FailedLink =>
        /\ TINTIN \notin list_local_sdk_versions(fs)
        /\ \A pkg \in BOOLEAN :
               make_tintin_sdk(fs, TRUE, pkg, "none").exc # "TintinAlreadySetUp"

\* what holds: a path without the build script is refused before anything
\* is written
C22_MissingScriptChangesNothing ==
    (last.op = "make_tintin_sdk" /\ last.exc = "TintinNotFound") => fs = last.pre

(***************************************************************************)
(* Claims on the swap of the pointer, under SwapSpec.                      *)
(***************************************************************************)
\* what the pointer is in f: absent, or on the previous target, or on the
\* requested version
PointerAbsent(f) == Pointer(f) = <<>>
PointerPrevious(f) == Pointer(f) = Pointer(last.pre)
PointerRequested(f) == Pointer(f) = <<LinkTo(join(sdk_dir, run.version))>>

\* the swap has removed the pointer and not yet created the new one
BetweenSteps == run.pc = "symlink" \/ (run.pc = "crashed" /\ run.at = "symlink")

\* C23: set_current_sdk(version) for an installed version removes any
\* existing pointer before it creates the new one, and a missing pointer is
\* no error; at every point of the swap the pointer is absent, or on the
\* previous target, or on the requested version; a crash between the two
\* steps leaves no current version selected (get_current_sdk() is None).
C23_SwapRemovesThenCreates ==
    /\ PointerAbsent(fs) \/ PointerPrevious(fs) \/ PointerRequested(fs)
    /\ BetweenSteps =>
           /\ PointerAbsent(fs)
           /\ get_current_sdk(fs) = [exc |-> "none", none |-> TRUE, version |-> EMPTY]
    /\ (run.pc = "raised" /\ PointerAbsent(last.pre)) => run.exc = "NotInstalled"
    /\ run.pc = "returned" => PointerRequested(fs)

\* the same for a pointer that is a symlink or absent when the call begins
C23_SymlinkSwapRemovesThenCreates ==
    (Pointer(last.pre) = <<>> \/ Pointer(last.pre)[1].kind = "link") =>
        /\ PointerAbsent(fs) \/ PointerPrevious(fs) \/ PointerRequested(fs)
        /\ BetweenSteps =>
               /\ PointerAbsent(fs)
               /\ get_current_sdk(fs) = [exc |-> "none", none |-> TRUE, version |-> EMPTY]
        /\ run.pc = "raised" => run.exc = "NotInstalled"
        /\ run.pc = "returned" => PointerRequested(fs)

\* the statements of set_current_sdk end as the call does
C23_StepsAgreeWithCall ==
    run.pc \in {"returned", "raised"} =>
        Outcome(fs, run.exc) = set_current_sdk(last.pre, run.version)

C23_Witness ==
    /\ run.pc = "crashed" /\ run.at = "symlink"
    /\ run.version = V2
    /\ Pointer(last.pre) = <<LinkTo(join(sdk_dir, V10))>>
    /\ PointerAbsent(fs)

(***************************************************************************)
(* Claims on two concurrent installs, under RaceSpec.                      *)
(***************************************************************************)
RaceVersion == run.p[1].a.version
RaceDest == join(sdk_dir, RaceVersion)
Ended(i) == run.p[i].pc \in {"returned", "raised"}
Succeeded(i) == run.p[i].pc = "returned"

\* both runs have ended after both had passed the already-installed check
\* before either created the destination
RaceOver == run.raced /\ Ended(1) /\ Ended(2)

\* the version is installed and complete in f
InstalledComplete(f) ==
    /\ RaceVersion \in list_local_sdk_versions(f)
    /\ getnode(f, RaceDest) = Complete(RaceVersion)

\* C24: when two installs of one version run concurrently and both pass the
\* already-installed check before either creates the destination, at most
\* one succeeds; the one whose os.mkdir fails ends with an error without
\* deleting or altering the destination the other created; when one reports
\* success the version is installed and complete afterwards.
C24_LoserSparesWinner ==
    RaceOver =>
        /\ ~(Succeeded(1) /\ Succeeded(2))
        /\ \A i \in 1..2 : run.p[i].raised = "OSError@mkdir" => run.p[i].cleanup = "none"
        /\ (Succeeded(1) \/ Succeeded(2)) => InstalledComplete(fs)

\* what holds: at most one of the two succeeds
C24_AtMostOneSucceeds ==
    (Ended(1) /\ Ended(2)) => ~(Succeeded(1) /\ Succeeded(2))

\* uninstall_sdk(V) was called for a listed version whose directory the
\* pointer did not resolve to
UninstalledOther ==
    /\ last.op = "uninstall_sdk"
    /\ last.arg \in list_local_sdk_versions(last.pre)
    /\ \A t \in {stat(last.pre, _current_path)} :
           t.ok => t.key # stat(last.pre, join(sdk_dir, last.arg)).key

\* C25: uninstall_sdk(V) for an installed version V that is not the
\* pointer's target removes only V: the pointer is as it was and targets the
\* same version, and every other installed version is still listed; V is
\* gone when the call returns.
C25_UninstallOtherKeepsRest ==
    UninstalledOther =>
        /\ Pointer(fs) = Pointer(last.pre)
        /\ Resolved(fs) = Resolved(last.pre)
        /\ list_local_sdk_versions(last.pre) \ {last.arg} \subseteq list_local_sdk_versions(fs)
        /\ list_local_sdk_versions(fs) \subseteq list_local_sdk_versions(last.pre)
        /\ last.exc = "none" =>
               (last.arg \notin list_local_sdk_versions(fs)
                /\ ~exists(fs, join(sdk_dir, last.arg)))

\* 2 is removed from a root that holds 1.5, 2 and 10 with the pointer on 1.5
C25_Witness ==
    /\ UninstalledOther
    /\ last.exc = "none"
    /\ last.arg = V2
    /\ list_local_sdk_versions(last.pre) = Released
    /\ list_local_sdk_versions(fs) = {V1_5, V10}
    /\ get_current_sdk(fs) = [exc |-> "none", none |-> FALSE, version |-> V1_5]

\* uninstall_sdk(V) was called for a version without a directory under the
\* SDK root
UninstalledMissing ==
    /\ last.op = "uninstall_sdk"
    /\ ~exists(last.pre, join(sdk_dir, last.arg))

\* C26: uninstall_sdk(V) for a version V that has no directory under the SDK
\* root fails with MissingSDK and changes nothing: the installed versions
\* and the pointer are after the call what they were before it.
C26_MissingFailsWithMissingSDK ==
    UninstalledMissing =>
        /\ last.exc = "MissingSDK"
        /\ fs = last.pre
        /\ list_local_sdk_versions(fs) = list_local_sdk_versions(last.pre)
        /\ Pointer(fs) = Pointer(last.pre)

\* what holds: the call fails and changes nothing, with MissingSDK whenever
\* get_current_sdk() does not raise
C26_MissingChangesNothing ==
    UninstalledMissing =>
        /\ last.exc \in {"MissingSDK", "ValueError"}
        /\ last.exc = "ValueError" => get_current_sdk(last.pre).exc = "ValueError"
        /\ fs = last.pre

====
